---- MODULE Spec2Model ----
(***************************************************************************)
(* The client side of the microRPC protocol (src/src/lib.rs): a Client     *)
(* that owns a duplex byte channel and an optional cached procedure table, *)
(* with the operations enumerate, procedures and call.                     *)
(*                                                                         *)
(* The channel is the environment.  What it delivers to one operation is   *)
(* an input of that operation: the bytes its reads return, in order (a     *)
(* read past the last of them fails with an I/O error), and the number of  *)
(* bytes its writes accept before a write fails.                           *)
(***************************************************************************)
EXTENDS Integers, Sequences, FiniteSets, TLC

(* ------------------------------ bounds --------------------------------- *)

\* Bytes the channel delivers to one enumeration at most.
MaxReads == 8
\* Arguments a caller passes to call at most.
MaxArgs == 2
\* Largest procedure id a caller passes to call.
MaxId == 1
\* Version requests written over the life of one Client at most.
MaxHandshakes == 2
\* Response bytes the client may leave unread in the channel at most.
MaxUnread == 1

(* ---------------------------- constants -------------------------------- *)

VERSION == 0

RequestVersion == 0
RequestEnumerate == 1
RequestCall == 2

\* The byte values the server side of the channel sends: the result codes 0
\* and 1, an invalid code or type (2, 129), the type bytes 0 and 1, the flags
\* bytes 0, 1, 2 (no return value, that many parameters) and 129 (0x81: a
\* return value and one parameter), the counts 0, 1, 2.
Byte == {0, 1, 2, 129}

U8 == "U8"
U16 == "U16"
NoType == "None"

\* The payloads the callers pass.
Values == {[ty |-> U8, v |-> 7], [ty |-> U16, v |-> 258]}

Min(a, b) == IF a < b THEN a ELSE b

\* Every write of one operation is accepted when the channel accepts this many
\* bytes: two request bytes of the handshake, three of the call, two per argument.
WriteLimit == 5 + 2 * MaxArgs

(* ------------------------------ errors --------------------------------- *)

IoError == [kind |-> "IoError"]
GenericError == [kind |-> "GenericError"]
\* A call that answers an id past the table with the error of the server.
OutOfRangeAsGeneric == [kind |-> "GenericError"]
ProcOutOfRange == [kind |-> "ProcOutOfRange"]
MismatchedArguments(i, e, f) ==
    [kind |-> "MismatchedArguments", index |-> i, expected |-> e, found |-> f]
\* A version error with the two versions in each other's place.
SwappedVersion(o, t) == [kind |-> "MismatchedVersion", ours |-> t, theirs |-> o]
MismatchedVersion(o, t) == [kind |-> "MismatchedVersion", ours |-> o, theirs |-> t]
ProtocolError(d) == [kind |-> "ProtocolError", description |-> d]
\* A failed assert!/assert_eq! of call.
Panic == [kind |-> "Panic"]

(* ------------------------------ channel -------------------------------- *)

\* One byte written to (k = "w") or read from (k = "r") the channel, with the
\* request it belongs to.
Event(k, b, req) == [k |-> k, b |-> b, req |-> req]

\* let x = value in body, written Let([x \in {value} |-> body])
Let(f) == f[CHOOSE x \in DOMAIN f : TRUE]

Ok == [kind |-> "Ok"]

\* The channel as one operation sees it: s the bytes its reads will return,
\* pos the next of them, wleft the bytes its writes will still accept, io what
\* was written and read so far, buf the bytes of the last read, rerr and werr
\* whether the last read or write failed.
Channel(s, wb) ==
    [s |-> s, pos |-> 1, wleft |-> wb, io |-> <<>>, buf |-> <<>>,
     rerr |-> FALSE, werr |-> FALSE]

\* write_all of bytes: what the channel still accepts is written, and the write
\* fails when that is not all of it.
ChWrite(ch, bytes, req) ==
    [ch EXCEPT !.io = @ \o [i \in 1..Min(Len(bytes), ch.wleft)
                              |-> Event("w", bytes[i], req)],
               !.wleft = @ - Min(Len(bytes), ch.wleft),
               !.werr = ch.wleft < Len(bytes)]

\* read_exact of n bytes: the bytes left, n at most, are consumed, and the read
\* fails when they are fewer than n.
ChRead(ch, n, req) ==
    Let([k \in {Min(n, Len(ch.s) - ch.pos + 1)} |->
        [ch EXCEPT !.io = @ \o [i \in 1..k |-> Event("r", ch.s[ch.pos + i - 1], req)],
                   !.pos = @ + k,
                   !.buf = SubSeq(ch.s, ch.pos, ch.pos + k - 1),
                   !.rerr = k < n]])

\* byteorder's NetworkEndian: the most significant byte first.
\* An encoder that puts the least significant byte first.
U16BytesLittle(v) == <<v % 256, v \div 256>>
U16Bytes(v) == <<v \div 256, v % 256>>
\* A decoder that takes the least significant byte first.
U16ValueLittle(buf) == buf[1] + buf[2] * 256
U16Value(buf) == buf[1] * 256 + buf[2]

(* ------------------------------- types --------------------------------- *)

\* A Type::read that takes a byte it does not know for a U8.
TypeReadDefaulting(ch, req) ==
    Let([c \in {ChRead(ch, 1, req)} |->
        IF c.rerr THEN [result |-> IoError, ty |-> NoType, ch |-> c]
        ELSE IF c.buf[1] = 1 THEN [result |-> Ok, ty |-> U16, ch |-> c]
        ELSE [result |-> Ok, ty |-> U8, ch |-> c]])

\* Type::read: one byte, 0x00 is U8, 0x01 is U16, anything else a protocol error.
TypeRead(ch, req) ==
    Let([c \in {ChRead(ch, 1, req)} |->
        IF c.rerr THEN [result |-> IoError, ty |-> NoType, ch |-> c]
        ELSE IF c.buf[1] = 0 THEN [result |-> Ok, ty |-> U8, ch |-> c]
        ELSE IF c.buf[1] = 1 THEN [result |-> Ok, ty |-> U16, ch |-> c]
        ELSE [result |-> ProtocolError("invalid type"), ty |-> NoType, ch |-> c]])

\* Value::ty
Ty(value) == value.ty

\* Value::write: a U8 as one byte, a U16 as two, the most significant first.
ValueWrite(value, ch, req) ==
    IF value.ty = U8 THEN ChWrite(ch, <<value.v>>, req)
    ELSE ChWrite(ch, U16Bytes(value.v), req)

\* Value::read: the bytes the type implies, decoded most significant byte first.
ValueRead(ty, ch, req) ==
    Let([c \in {ChRead(ch, IF ty = U8 THEN 1 ELSE 2, req)} |->
        IF c.rerr THEN [result |-> IoError, ch |-> c]
        ELSE IF ty = U8
        THEN [result |-> [kind |-> "Ok", value |-> [ty |-> U8, v |-> c.buf[1]]],
              ch |-> c]
        ELSE [result |-> [kind |-> "Ok", value |-> [ty |-> U16, v |-> U16Value(c.buf)]],
              ch |-> c]])

(* --------------------------- result bytes ------------------------------ *)

\* A read_result that takes every result byte but 0 for the error of the
\* procedure.
ReadResultLenient(ch, req) ==
    Let([c \in {ChRead(ch, 1, req)} |->
        IF c.rerr THEN [result |-> IoError, ch |-> c]
        ELSE IF c.buf[1] = 0 THEN [result |-> Ok, ch |-> c]
        ELSE [result |-> GenericError, ch |-> c]])

\* Client::read_result
ReadResult(ch, req) ==
    Let([c \in {ChRead(ch, 1, req)} |->
        IF c.rerr THEN [result |-> IoError, ch |-> c]
        ELSE IF c.buf[1] = 0 THEN [result |-> Ok, ch |-> c]
        ELSE IF c.buf[1] = 1 THEN [result |-> GenericError, ch |-> c]
        ELSE [result |-> ProtocolError("invalid result byte"), ch |-> c]])

\* A read_success that reads the result byte as read_result does.
ReadSuccessFallible(ch, req) == ReadResult(ch, req)

\* Client::read_success
ReadSuccess(ch, req) ==
    Let([c \in {ChRead(ch, 1, req)} |->
        IF c.rerr THEN [result |-> IoError, ch |-> c]
        ELSE IF c.buf[1] = 0 THEN [result |-> Ok, ch |-> c]
        ELSE [result |-> ProtocolError("invalid result of infallible request"),
              ch |-> c]])

(* ----------------------------- enumerate ------------------------------- *)

\* The cache: Option<Box<[Procedure]>>.
None == [some |-> FALSE, procs |-> <<>>]
Some(procs) == [some |-> TRUE, procs |-> procs]

\* A table whose ids count from 1.
ProcedureFromOne(id, parameters, returns) ==
    [id |-> id + 1, parameters |-> parameters, returns |-> returns]

Procedure(id, parameters, returns) ==
    [id |-> id, parameters |-> parameters, returns |-> returns]

\* An operation that drops the cache when the server reports an error.
RetDropOnError(self, result, ch) ==
    [procedures |-> IF result.kind = "GenericError" THEN None ELSE self,
     result |-> result, ch |-> ch]

\* What an operation gives back: the cache it leaves, its result, the channel.
Ret(self, result, ch) == [procedures |-> self, result |-> result, ch |-> ch]

\* The loop over the parameters of one descriptor: n types, in order, up to
\* the first that cannot be read.  The n iterations are taken as the first
\* n \div 2 of them and then the others, which keeps the evaluation of the
\* 127 iterations of the longest descriptor shallow.
RECURSIVE ReadParams(_, _)
ReadParams(ch, n) ==
    IF n = 0 THEN [result |-> Ok, params |-> <<>>, ch |-> ch]
    ELSE IF n = 1
    THEN Let([t \in {TypeRead(ch, "Enumerate")} |->
         IF t.result.kind # "Ok"
         THEN [result |-> t.result, params |-> <<>>, ch |-> t.ch]
         ELSE [result |-> Ok, params |-> <<t.ty>>, ch |-> t.ch]])
    ELSE Let([first \in {ReadParams(ch, n \div 2)} |->
         IF first.result.kind # "Ok" THEN first
         ELSE Let([rest \in {ReadParams(first.ch, n - n \div 2)} |->
              IF rest.result.kind # "Ok"
              THEN [result |-> rest.result, params |-> <<>>, ch |-> rest.ch]
              ELSE [result |-> Ok,
                    params |-> first.params \o rest.params,
                    ch |-> rest.ch]])])

\* A descriptor read with the parameter types before the return type.
ReadDescriptorParamsFirst(ch, i) ==
    Let([c0 \in {ChRead(ch, 1, "Enumerate")} |->
    IF c0.rerr THEN [result |-> IoError, ch |-> c0] ELSE
    Let([params \in {ReadParams(c0, c0.buf[1] % 128)} |->
    IF params.result.kind # "Ok" THEN [result |-> params.result, ch |-> params.ch] ELSE
    Let([return_type \in {IF c0.buf[1] >= 128 THEN TypeRead(params.ch, "Enumerate")
        ELSE [result |-> Ok, ty |-> NoType, ch |-> params.ch]} |->
    IF return_type.result.kind # "Ok"
    THEN [result |-> return_type.result, ch |-> return_type.ch]
    ELSE [result |-> Ok,
          proc |-> Procedure(i, params.params, return_type.ty),
          ch |-> return_type.ch]])])])

\* One procedure descriptor: the flags byte, the return type when bit 7 of the
\* flags is set, then as many parameter types as the low 7 bits say.
ReadDescriptor(ch, i) ==
    Let([c0 \in {ChRead(ch, 1, "Enumerate")} |->
    IF c0.rerr THEN [result |-> IoError, ch |-> c0] ELSE
    LET byte0 == c0.buf[1]
        has_return_value == (byte0 \div 128) % 2 # 0
        num_params == byte0 % 128
    IN
    Let([return_type \in {IF has_return_value THEN TypeRead(c0, "Enumerate")
        ELSE [result |-> Ok, ty |-> NoType, ch |-> c0]} |->
    IF return_type.result.kind # "Ok"
    THEN [result |-> return_type.result, ch |-> return_type.ch] ELSE
    Let([params \in {ReadParams(return_type.ch, num_params)} |->
    IF params.result.kind # "Ok" THEN [result |-> params.result, ch |-> params.ch]
    ELSE [result |-> Ok,
          proc |-> Procedure(i, params.params, return_type.ty),
          ch |-> params.ch]])])])

\* The loop over the descriptors i .. num_procs - 1.
RECURSIVE ReadProcs(_, _, _)
ReadProcs(ch, i, num_procs) ==
    IF i >= num_procs THEN [result |-> Ok, procs |-> <<>>, ch |-> ch]
    ELSE Let([d \in {ReadDescriptor(ch, i)} |->
         IF d.result.kind # "Ok"
         THEN [result |-> d.result, procs |-> <<>>, ch |-> d.ch]
         ELSE Let([rest \in {ReadProcs(d.ch, i + 1, num_procs)} |->
              [result |-> rest.result,
               procs |-> <<d.proc>> \o rest.procs,
               ch |-> rest.ch]])])

\* An enumerate that keeps the entries of the old table past the end of the new.
InstallOver(self, procs) ==
    Some(procs \o SubSeq(self.procs, Len(procs) + 1, Len(self.procs)))

\* An enumerate that answers with the table it read and does not store it.
Forget(self, procs) == [some |-> FALSE, procs |-> procs]

\* The cache enumerate leaves when the whole table was read.
Install(self, procs) == Some(procs)

\* An enumerate that forgets the cached table when it fails.
ClearCache(self, procs) == None

\* An enumerate that caches an empty table when it fails.
InstallEmpty(self, procs) == Some(<<>>)

\* An enumerate that stores the descriptors it read before it failed.
InstallPartial(self, procs) == Some(procs)

\* The cache enumerate leaves when it fails.
KeepCache(self, procs) == self

\* Client::enumerate
Enumerate(self, ch) ==
    Let([c1 \in {ChWrite(ch, <<RequestVersion>>, "Version")} |->
    IF c1.werr THEN Ret(self, IoError, c1) ELSE
    Let([r1 \in {ReadSuccess(c1, "Version")} |->
    IF r1.result.kind # "Ok" THEN Ret(self, r1.result, r1.ch) ELSE
    Let([c2 \in {ChRead(r1.ch, 1, "Version")} |->
    IF c2.rerr THEN Ret(self, IoError, c2) ELSE
    IF c2.buf[1] # VERSION
    THEN Ret(self, MismatchedVersion(VERSION, c2.buf[1]), c2) ELSE
    Let([c3 \in {ChWrite(c2, <<RequestEnumerate>>, "Enumerate")} |->
    IF c3.werr THEN Ret(self, IoError, c3) ELSE
    Let([r2 \in {ReadSuccess(c3, "Enumerate")} |->
    IF r2.result.kind # "Ok" THEN Ret(self, r2.result, r2.ch) ELSE
    Let([c4 \in {ChRead(r2.ch, 2, "Enumerate")} |->
    IF c4.rerr THEN Ret(self, IoError, c4) ELSE
    Let([t \in {ReadProcs(c4, 0, U16Value(c4.buf))} |->
    IF t.result.kind # "Ok"
    THEN Ret(KeepCache(self, t.procs), t.result, t.ch)
    ELSE Let([installed \in {Install(self, t.procs)} |->
         Ret(installed, [kind |-> "Ok", procs |-> installed.procs], t.ch)])])])])])])])])

\* Client::procedures
Procedures(self, ch) ==
    IF self.some THEN Ret(self, [kind |-> "Ok", procs |-> self.procs], ch)
    ELSE Enumerate(self, ch)

(* ------------------------------- call ---------------------------------- *)

\* The pairs the validation loop of call looks at: arguments.iter().zip(
\* procedure.parameters.iter()) stops at the end of the shorter of the two.
Zip(arguments, parameters) == 1 .. Min(Len(arguments), Len(parameters))

\* A validation loop that keeps the last pair whose types differ, not the first.
LastMismatch(arguments, parameters) ==
    LET bad == {i \in Zip(arguments, parameters) : Ty(arguments[i]) # parameters[i]}
    IN  IF bad = {} THEN 0 ELSE CHOOSE i \in bad : \A j \in bad : i >= j

\* The first pair of the validation loop whose types differ, 0 when none does.
FirstMismatch(arguments, parameters) ==
    LET bad == {i \in Zip(arguments, parameters) : Ty(arguments[i]) # parameters[i]}
    IN  IF bad = {} THEN 0 ELSE CHOOSE i \in bad : \A j \in bad : i <= j

\* What call answers to the arguments of a procedure: the error of the first
\* pair of mismatched types, Ok when the validation loop finds none.
Validate(procedure, arguments) ==
    Let([m \in {FirstMismatch(arguments, procedure.parameters)} |->
        IF m = 0 THEN Ok
        ELSE IF ~(m - 1 < 256) THEN Panic
        ELSE MismatchedArguments(m - 1, procedure.parameters[m], Ty(arguments[m]))])

\* The loop that writes the arguments, in order, up to the first failed write.
RECURSIVE WriteArgs(_, _, _)
WriteArgs(ch, arguments, i) ==
    IF i > Len(arguments) THEN ch
    ELSE Let([c \in {ValueWrite(arguments[i], ch, "Call")} |->
             IF c.werr THEN c ELSE WriteArgs(c, arguments, i + 1)])

\* The request of call: the opcode, the id, the arguments.
WriteCall(ch, id, arguments) ==
    Let([c1 \in {ChWrite(ch, <<RequestCall>>, "Call")} |->
    IF c1.werr THEN c1 ELSE
    Let([c2 \in {ChWrite(c1, U16Bytes(id), "Call")} |->
    IF c2.werr THEN c2 ELSE WriteArgs(c2, arguments, 1)])])

\* What call does with the server's response once the request is written.
ReadResponse(self, id, ch) ==
    Let([r \in {ReadResult(ch, "Call")} |->
    IF r.result.kind # "Ok" THEN Ret(self, r.result, r.ch) ELSE
    Let([p \in {Procedures(self, r.ch)} |->
    IF p.result.kind # "Ok" THEN p ELSE
    IF p.result.procs[id + 1].returns # NoType
    THEN Let([retval \in {ValueRead(p.result.procs[id + 1].returns, p.ch, "Call")} |->
         IF retval.result.kind # "Ok" THEN Ret(p.procedures, IoError, retval.ch)
         ELSE Ret(p.procedures,
                  [kind |-> "Ok", value |-> [some |-> TRUE, val |-> retval.result.value]],
                  retval.ch)])
    ELSE Ret(p.procedures,
             [kind |-> "Ok", value |-> [some |-> FALSE, val |-> <<>>]],
             p.ch)])])

\* Client::call
Call(self, id, arguments, ch) ==
    Let([p \in {Procedures(self, ch)} |->
    IF p.result.kind # "Ok" THEN p ELSE
    IF id >= Len(p.result.procs) THEN Ret(p.procedures, ProcOutOfRange, p.ch) ELSE
    IF p.result.procs[id + 1].id # id THEN Ret(p.procedures, Panic, p.ch) ELSE
    Let([v \in {Validate(p.result.procs[id + 1], arguments)} |->
    IF v.kind # "Ok" THEN Ret(p.procedures, v, p.ch) ELSE
    Let([c \in {WriteCall(p.ch, id, arguments)} |->
    IF c.werr THEN Ret(p.procedures, IoError, c)
    ELSE ReadResponse(p.procedures, id, c)])])])

(* ------------------------------ the client ----------------------------- *)

\* procedures: the cache of the Client (its field procedures).
\* last:       the operation the caller invoked last and has not yet taken the
\*             result of: its name, its arguments, its result, the bytes it
\*             wrote to and read from the channel, in order, and whether a
\*             read (rerr) or a write (werr) of the channel failed in it,
\*             and the length of the table that was cached when it began
\*             (had, -1 for no table).
\* sent:       the Version and Enumerate requests written since Client::new,
\*             and whether every enumeration so far was a successful one made
\*             through procedures or call (none explicit, none failed).
\* unread:     the bytes of the server's responses the Client has not read.
VARIABLES procedures, last, sent, unread

vars == <<procedures, last, sent, unread>>

NoOp == [op |-> "none", id |-> 0, arguments |-> <<>>, result |-> [kind |-> "None"],
         io |-> <<>>, rerr |-> FALSE, werr |-> FALSE, had |-> -1]

\* The argument lists the callers pass.
ArgLists == UNION {[1..n -> Values] : n \in 0..MaxArgs}

\* One operation of the Client on a channel.
Run(op, self, id, arguments, ch) ==
    IF op = "enumerate" THEN Enumerate(self, ch)
    ELSE IF op = "procedures" THEN Procedures(self, ch)
    ELSE Call(self, id, arguments, ch)

\* Whether the operation, having read all of s and asked for more, may be
\* given more: an enumeration while it has read fewer than MaxReads bytes, the
\* response of a call (three bytes at most) always.
CanGrow(op, out, s) ==
    IF op = "call" /\ out.procedures.some
    THEN Len(s) < MaxReads + 3
    ELSE Len(s) < MaxReads

Written(io) == SelectSeq(io, LAMBDA e : e.k = "w")
ReadBack(io) == SelectSeq(io, LAMBDA e : e.k = "r")
Of(io, req) == SelectSeq(io, LAMBDA e : e.req = req)
Bytes(io) == [i \in 1..Len(io) |-> io[i].b]

\* The numbers of bytes the channel may accept before a write of the run out
\* fails, such that the run has by then read all the bytes it read: those
\* that end the run at a write that follows its last read.
WriteFaults(out) ==
    {k \in 0 .. Len(Written(out.ch.io)) - 1 :
        \A i \in 1..Len(out.ch.io) :
            out.ch.io[i].k = "r" => Len(Written(SubSeq(out.ch.io, 1, i))) <= k}

\* The runs of one operation on every channel: each read returns any byte, or
\* fails because there is none (after s, the bytes read so far), and each
\* write is accepted, or fails.
RECURSIVE Runs(_, _, _, _, _)
Runs(op, self, id, arguments, s) ==
    Let([out \in {Run(op, self, id, arguments, Channel(s, WriteLimit))} |->
        {out}
        \cup {Run(op, self, id, arguments, Channel(s, k)) : k \in WriteFaults(out)}
        \cup IF out.ch.rerr /\ CanGrow(op, out, s)
             THEN UNION {Runs(op, self, id, arguments, Append(s, b)) : b \in Byte}
             ELSE {}])

\* Whether the operation runs an enumeration.
Enumerates(op, self) == op = "enumerate" \/ ~self.some

\* Whether the enumeration the operation ran succeeded.
Enumerated(op, out) ==
    IF op = "call" THEN out.procedures.some ELSE out.result.kind = "Ok"

\* The response bytes left unread after an operation.  An operation that read
\* nothing leaves what there was; a read that failed found the channel empty;
\* an operation that gave up on a response it could not parse, or that began
\* with stale bytes in the channel, may leave bytes behind; and the response
\* to a request the Client parsed to its end is consumed.
Leftover(before, out) ==
    IF ReadBack(out.ch.io) = <<>> /\ ~out.ch.rerr THEN {before}
    ELSE IF out.ch.rerr THEN {0}
    ELSE IF out.result.kind = "ProtocolError" \/ before > 0 THEN 0..MaxUnread
    ELSE {0}

Count(io, req, opcode) ==
    Len(SelectSeq(Written(io), LAMBDA e : e.req = req /\ e.b = opcode))

\* The length of the cached table, -1 when no table is cached.
Had(self) == IF self.some THEN Len(self.procs) ELSE -1

\* Client::new
Init ==
    /\ procedures = None
    /\ last = NoOp
    /\ sent = [version |-> 0, enumerate |-> 0, pristine |-> TRUE]
    /\ unread = 0

\* The operation op of the Client, run to its end on what the channel does.
Do(op, id, arguments) ==
    \E out \in Runs(op, procedures, id, arguments, <<>>) :
            \* a read fails when the channel has run dry, not before the
            \* bytes left in it are read
            /\ out.ch.rerr => Len(ReadBack(out.ch.io)) >= unread
            /\ procedures' = out.procedures
            /\ last' = [op |-> op, id |-> id, arguments |-> arguments,
                        result |-> out.result, io |-> out.ch.io,
                        rerr |-> out.ch.rerr, werr |-> out.ch.werr,
                        had |-> Had(procedures)]
            /\ sent' = [version |-> sent.version
                                     + Count(out.ch.io, "Version", RequestVersion),
                        enumerate |-> sent.enumerate
                                     + Count(out.ch.io, "Enumerate", RequestEnumerate),
                        pristine |-> /\ sent.pristine
                                     /\ op # "enumerate"
                                     /\ Enumerates(op, procedures) => Enumerated(op, out)]
            /\ unread' \in Leftover(unread, out)

\* The caller invokes enumerate().
ClientEnumerate ==
    /\ last.op = "none"
    /\ sent.version < MaxHandshakes
    /\ Do("enumerate", 0, <<>>)

\* The caller invokes procedures().
ClientProcedures ==
    /\ last.op = "none"
    /\ ~procedures.some => sent.version < MaxHandshakes
    /\ Do("procedures", 0, <<>>)

\* The caller invokes call(id, arguments).
ClientCall ==
    /\ last.op = "none"
    /\ ~procedures.some => sent.version < MaxHandshakes
    /\ \E id \in 0..MaxId, arguments \in ArgLists : Do("call", id, arguments)

\* The caller takes the result of the operation.
Return ==
    /\ last.op # "none"
    /\ last' = NoOp
    /\ UNCHANGED <<procedures, sent, unread>>

Next == ClientEnumerate \/ ClientProcedures \/ ClientCall \/ Return

Spec == Init /\ [][Next]_vars

(* ------------------------------- claims -------------------------------- *)

\* What the last operation wrote and read for its Call request.
CallIo == Of(last.io, "Call")

\* The last operation is a call whose id is an index of the table it used.
ValidCall ==
    /\ last.op = "call"
    /\ procedures.some
    /\ last.id < Len(procedures.procs)

\* The parameter types the procedure of the last call declares.
Declared == procedures.procs[last.id + 1].parameters

\* The positions of the last call at which an argument is supplied and a
\* parameter is declared and their types differ.
Mismatches ==
    {i \in 1..Len(last.arguments) :
        i <= Len(Declared) /\ last.arguments[i].ty # Declared[i]}

\* C1: a call with a valid id in which the type of some argument differs from
\* the type of the parameter declared at its position fails with
\* MismatchedArguments, which carries the smallest such position (0-based),
\* the declared type and the supplied type, and no byte of the Call request is
\* written to the channel.
C1_MismatchedArguments ==
    (ValidCall /\ Mismatches # {}) =>
        /\ \E m \in Mismatches :
              /\ \A j \in Mismatches : m <= j
              /\ last.result = [kind |-> "MismatchedArguments", index |-> m - 1,
                                expected |-> Declared[m],
                                found |-> last.arguments[m].ty]
        /\ CallIo = <<>>

\* A call was refused for the first of two mismatched arguments.
C1_Witness ==
    /\ ValidCall
    /\ Cardinality(Mismatches) = 2
    /\ last.result.kind = "MismatchedArguments"
    /\ last.result.index = 0

\* C2: a call with a valid id and a number of arguments other than the number
\* of declared parameters fails with MismatchedArgumentCount, which carries
\* the two numbers, whether or not a type is wrong too, and no byte of the
\* Call request is written to the channel.
C2_MismatchedArgumentCount ==
    (ValidCall /\ Len(last.arguments) # Len(Declared)) =>
        /\ last.result = [kind |-> "MismatchedArgumentCount",
                          expected |-> Len(Declared),
                          found |-> Len(last.arguments)]
        /\ CallIo = <<>>

SizeOf(ty) == IF ty = U8 THEN 1 ELSE 2

RECURSIVE SumSizes(_)
SumSizes(tys) == IF tys = <<>> THEN 0 ELSE SizeOf(Head(tys)) + SumSizes(Tail(tys))

\* C3: a Call request the Client has written is well-formed for the cached
\* table: its id is an index of the table, it carries as many arguments as the
\* procedure declares parameters, each of the type of its parameter, and it is
\* 3 bytes and the sizes of the declared parameters long.
C3_WellFormedCall ==
    (last.op = "call" /\ Written(CallIo) # <<>> /\ ~last.werr) =>
        /\ ValidCall
        /\ Len(last.arguments) = Len(Declared)
        /\ \A i \in 1..Len(Declared) : last.arguments[i].ty = Declared[i]
        /\ Len(Written(CallIo)) = 3 + SumSizes(Declared)

\* C4: with a table cached, a call with an id at or past the end of the table
\* fails with ProcOutOfRange whatever its arguments, and neither writes to the
\* channel nor reads from it.
C4_ProcOutOfRange ==
    [][(procedures.some /\ last'.op = "call" /\ last'.id >= Len(procedures.procs)) =>
          /\ last'.result = [kind |-> "ProcOutOfRange"]
          /\ last'.io = <<>>
          /\ ~last'.rerr /\ ~last'.werr
      ]_vars

\* A call with arguments was refused for its id by a Client with a table of
\* one procedure or more, without a byte on the channel.
C4_Witness ==
    /\ last.op = "call"
    /\ last.result.kind = "ProcOutOfRange"
    /\ last.arguments # <<>>
    /\ last.io = <<>>
    /\ Len(procedures.procs) >= 1
    /\ last.id >= Len(procedures.procs)

\* What the operation of this step wrote and read for its Version request and
\* for its Enumerate request.
VersionIo == Of(last'.io, "Version")
EnumerateIo == Of(last'.io, "Enumerate")

\* The operation of this step is an enumeration, asked for or implied by
\* procedures, that failed.
FailedEnumeration ==
    /\ last'.op \in {"enumerate", "procedures"}
    /\ last'.result.kind # "Ok"

\* C5: an enumeration that fails, at whatever step, leaves the cache as it
\* was before: a table cached earlier stays whole, no table stays no table,
\* and the descriptors read before the failure are not stored.
C5_EnumerateAtomic ==
    [][FailedEnumeration => procedures' = procedures]_vars

\* An explicit enumerate of a Client with a table failed on the second
\* descriptor of the new table, after it had read the first.
C5_Witness ==
    /\ last.op = "enumerate"
    /\ last.result = [kind |-> "ProtocolError", description |-> "invalid type"]
    /\ Bytes(ReadBack(Of(last.io, "Enumerate"))) = <<0, 0, 2, 0, 1, 2>>
    /\ procedures.some
    /\ Len(procedures.procs) = 1

\* C6: when the version byte the server reports is not VERSION (0), the
\* operation fails with MismatchedVersion of ours = 0 and theirs = that byte,
\* it writes no Enumerate request and the cache stays as it was.
C6_MismatchedVersion ==
    [][(/\ last'.op # "none"
        /\ Len(ReadBack(VersionIo)) = 2
        /\ ReadBack(VersionIo)[1].b = 0
        /\ ReadBack(VersionIo)[2].b # 0) =>
          /\ last'.result = [kind |-> "MismatchedVersion", ours |-> 0,
                             theirs |-> ReadBack(VersionIo)[2].b]
          /\ EnumerateIo = <<>>
          /\ procedures' = procedures
      ]_vars

\* An enumerate of a Client with a table met a server of version 129.
C6_Witness ==
    /\ last.op = "enumerate"
    /\ last.result = [kind |-> "MismatchedVersion", ours |-> 0, theirs |-> 129]
    /\ Bytes(last.io) = <<0, 0, 129>>
    /\ procedures.some

\* C7: procedures of a Client with a table answers with that table and does
\* nothing on the channel; and as long as no enumerate was asked for and no
\* enumeration failed, the procedures and call operations of a Client have
\* put one Version and one Enumerate request on the channel, by the first of
\* them, and none before it.
C7_Memoized ==
    /\ [][(procedures.some /\ last'.op = "procedures") =>
             /\ last'.result = [kind |-> "Ok", procs |-> procedures.procs]
             /\ last'.io = <<>>
             /\ ~last'.rerr /\ ~last'.werr
             /\ procedures' = procedures]_vars
    /\ [](sent.pristine =>
             /\ last.op \in {"procedures", "call"} => procedures.some
             /\ IF procedures.some
                THEN sent.version = 1 /\ sent.enumerate = 1
                ELSE sent.version = 0 /\ sent.enumerate = 0)
    /\ [][(procedures.some /\ last'.op \in {"procedures", "call"}) =>
             Written(VersionIo) = <<>> /\ Written(EnumerateIo) = <<>>]_vars

\* procedures answered from the table that the first procedures or call had
\* fetched.
C7_Witness ==
    /\ sent.pristine
    /\ last.op = "procedures"
    /\ last.io = <<>>
    /\ last.result.kind = "Ok"
    /\ Len(last.result.procs) = 2
    /\ sent.version = 1
    /\ sent.enumerate = 1

\* C8: the Client writes no request while bytes of the response to an earlier
\* request are unread in the channel, whatever the operations before it were
\* and however they ended.
C8_NoRequestOverUnread ==
    [][Written(last'.io) # <<>> => unread = 0]_vars

\* The bytes the last operation read of the response to its Call request.
CallResponse == Bytes(ReadBack(CallIo))

\* The return type the procedure of the last call declares.
Returns == procedures.procs[last.id + 1].returns

\* The value of a type that the bytes encode: one byte, or two with the most
\* significant first.
Decoded(ty, bytes) ==
    [ty |-> ty, v |-> IF ty = U8 THEN bytes[1] ELSE 256 * bytes[1] + bytes[2]]

\* The last operation is a call that wrote its whole request and read the
\* result byte of the response.
CallAnswered ==
    /\ last.op = "call"
    /\ Written(CallIo) # <<>>
    /\ ~last.werr
    /\ CallResponse # <<>>

\* C9: a call that has written its request reads one result byte. 0 is
\* success: of a procedure with a return type the call then reads the bytes of
\* one value of that type, no more, and answers Some of the value they
\* encode, and of a procedure with none it reads nothing and answers None.
\* 1 is GenericError and any other byte ProtocolError, and then the call reads
\* no byte after the result byte.
C9_CallResult ==
    CallAnswered =>
        IF CallResponse[1] = 0
        THEN IF Returns = NoType
             THEN /\ Len(CallResponse) = 1
                  /\ last.result = [kind |-> "Ok",
                                    value |-> [some |-> FALSE, val |-> <<>>]]
             ELSE IF last.rerr
             THEN /\ Len(CallResponse) < 1 + SizeOf(Returns)
                  /\ last.result = [kind |-> "IoError"]
             ELSE /\ Len(CallResponse) = 1 + SizeOf(Returns)
                  /\ last.result =
                        [kind |-> "Ok",
                         value |-> [some |-> TRUE,
                                    val |-> Decoded(Returns, Tail(CallResponse))]]
        ELSE /\ Len(CallResponse) = 1
             /\ last.result =
                   IF CallResponse[1] = 1
                   THEN [kind |-> "GenericError"]
                   ELSE [kind |-> "ProtocolError",
                         description |-> "invalid result byte"]

\* A call of a procedure that returns a U16 answered Some(258).
C9_Witness ==
    /\ CallAnswered
    /\ CallResponse = <<0, 1, 2>>
    /\ last.result.kind = "Ok"
    /\ last.result.value = [some |-> TRUE, val |-> [ty |-> U16, v |-> 258]]

\* The result bytes the last operation read of the responses to its Version
\* request and to its Enumerate request: the first byte of each.
InfallibleResults ==
    {Bytes(ReadBack(Of(last.io, req)))[1] :
        req \in {r \in {"Version", "Enumerate"} : ReadBack(Of(last.io, r)) # <<>>}}

\* C10: a result byte other than 0 in the response to a Version or an
\* Enumerate request, 1 included, makes the operation fail with ProtocolError;
\* and an operation fails with GenericError only for the result byte 1 of the
\* response to a Call request.
C10_InfallibleRequests ==
    /\ InfallibleResults # {0} /\ InfallibleResults # {} =>
          last.result = [kind |-> "ProtocolError",
                         description |-> "invalid result of infallible request"]
    /\ last.result.kind = "GenericError" =>
          /\ last.op = "call"
          /\ CallResponse = <<1>>

\* The server answered the Enumerate request of an enumerate with the result
\* byte 1.
C10_Witness ==
    /\ last.op = "enumerate"
    /\ Bytes(ReadBack(Of(last.io, "Enumerate"))) = <<1>>
    /\ last.result.kind = "ProtocolError"

\* C11: in every state with a table cached, the procedure at index i of the
\* table has the id i, whatever operations, successful or failed, came before.
C11_IdIsIndex ==
    procedures.some =>
        \A i \in 0 .. Len(procedures.procs) - 1 : procedures.procs[i + 1].id = i

\* A table of two procedures is cached after an operation that failed.
C11_Witness ==
    /\ procedures.some
    /\ Len(procedures.procs) = 2
    /\ procedures.procs[2].id = 1
    /\ last.op # "none"
    /\ last.result.kind \notin {"Ok", "None"}

(* ------------------------- values on the wire -------------------------- *)

\* Every Value: a U8 of a u8 payload, a U16 of a u16 payload.
AllValues ==
    {[ty |-> U8, v |-> n] : n \in 0 .. 2^8 - 1}
        \cup {[ty |-> U16, v |-> n] : n \in 0 .. 2^16 - 1}

\* A byte that follows the bytes of the value in the reader.
Trailing == <<129>>

\* A Value to write: last holds it as the one argument.
ValueInit ==
    /\ procedures = None
    /\ sent = [version |-> 0, enumerate |-> 0, pristine |-> TRUE]
    /\ unread = 0
    /\ \E value \in AllValues :
          last = [op |-> "value", id |-> 0, arguments |-> <<value>>,
                  result |-> [kind |-> "None"], io |-> <<>>,
                  rerr |-> FALSE, werr |-> FALSE, had |-> -1]

\* value.write(w) on a writer that accepts the bytes.
ValueWriteStep ==
    /\ last.op = "value"
    /\ \E c \in {ValueWrite(last.arguments[1], Channel(<<>>, 2), "Call")} :
          last' = [last EXCEPT !.op = "written", !.io = c.io, !.werr = c.werr]
    /\ UNCHANGED <<procedures, sent, unread>>

\* Value::read(&value.ty(), r) on a reader that holds the bytes written and
\* one byte more.
ValueReadStep ==
    /\ last.op = "written"
    /\ \E r \in {ValueRead(Ty(last.arguments[1]),
                           Channel(Bytes(last.io) \o Trailing, 0), "Call")} :
          last' = [last EXCEPT !.op = "read", !.io = @ \o r.ch.io,
                               !.rerr = r.ch.rerr, !.result = r.result]
    /\ UNCHANGED <<procedures, sent, unread>>

ValueNext == ValueWriteStep \/ ValueReadStep

ValueSpec == ValueInit /\ [][ValueNext]_vars

\* C12: a Value that is written and read back with its own type comes back as
\* a value of the same variant and payload, whose type is the type of the
\* value written; a U8 is written as and read from 1 byte, a U16 as and from 2
\* bytes, the most significant first, and the read takes no byte more than
\* were written.
C12_RoundTrip ==
    last.op = "read" =>
        /\ last.result = [kind |-> "Ok", value |-> last.arguments[1]]
        /\ last.result.value.ty = last.arguments[1].ty
        /\ Bytes(Written(last.io)) =
              IF last.arguments[1].ty = U8
              THEN <<last.arguments[1].v>>
              ELSE <<last.arguments[1].v \div 256, last.arguments[1].v % 256>>
        /\ Bytes(ReadBack(last.io)) = Bytes(Written(last.io))
        /\ \A i \in 1 .. Len(last.io) : last.io[i].b \in 0 .. 255

\* The U16 of payload 0x1234 was written as 12 34 and read back.
C12_Witness ==
    /\ last.op = "read"
    /\ last.arguments = <<[ty |-> U16, v |-> 4660]>>
    /\ Bytes(Written(last.io)) = <<18, 52>>
    /\ last.result.kind = "Ok"
    /\ last.result.value.v = 4660

\* The byte that stands for a type on the wire.
TypeByte(ty) == IF ty = U8 THEN 0 ELSE 1

\* The descriptor of a procedure on the wire: the flags (bit 7 for a return
\* type, the parameter count below it), the return type if any, the
\* parameter types in order.
DescriptorBytes(p) ==
    <<(IF p.returns # NoType THEN 128 ELSE 0) + Len(p.parameters)>>
        \o (IF p.returns # NoType THEN <<TypeByte(p.returns)>> ELSE <<>>)
        \o [i \in 1 .. Len(p.parameters) |-> TypeByte(p.parameters[i])]

RECURSIVE TableBytes(_)
TableBytes(procs) ==
    IF procs = <<>> THEN <<>>
    ELSE DescriptorBytes(Head(procs)) \o TableBytes(Tail(procs))

\* What the last operation wrote and read for its two handshake requests, and
\* each of these steps as a pair of its direction and its byte.
Handshake == SelectSeq(last.io, LAMBDA e : e.req # "Call")
Steps(io) == [i \in 1 .. Len(io) |-> <<io[i].k, io[i].b>>]

\* The last operation ran an enumeration, and the enumeration succeeded.
SuccessfulEnumeration ==
    /\ Handshake # <<>>
    /\ IF last.op = "call" THEN procedures.some ELSE last.result.kind = "Ok"

\* C13: a successful enumeration writes the Version opcode 0, reads the
\* result byte and the version byte, writes the Enumerate opcode 1, reads the
\* result byte and the count as two bytes, the most significant first, and
\* then reads, for each index below the count in turn, the flags byte, the
\* return type byte if bit 7 of the flags is set, and as many parameter type
\* bytes as the low 7 bits of the flags say; the table it installs has count
\* entries, and entry i has the id i and the types read for index i.
C13_EnumerateSteps ==
    SuccessfulEnumeration =>
        /\ procedures.some
        /\ Steps(Handshake) =
              << <<"w", 0>>, <<"r", 0>>, <<"r", 0>>, <<"w", 1>>, <<"r", 0>>,
                 <<"r", Len(procedures.procs) \div 256>>,
                 <<"r", Len(procedures.procs) % 256>> >>
              \o [i \in 1 .. Len(TableBytes(procedures.procs)) |->
                     <<"r", TableBytes(procedures.procs)[i]>>]
        /\ \A i \in 1 .. Len(procedures.procs) : procedures.procs[i].id = i - 1
        /\ last.io = Handshake \o CallIo
        /\ last.op # "call" =>
              last.result = [kind |-> "Ok", procs |-> procedures.procs]

\* The server of version 0 described one procedure by 81 01 00, and the table
\* is the procedure 0 with a U8 parameter that returns a U16.
C13_Witness ==
    /\ last.op = "enumerate"
    /\ Bytes(last.io) = <<0, 0, 0, 1, 0, 0, 1, 129, 1, 0>>
    /\ procedures = [some |-> TRUE,
                     procs |-> <<[id |-> 0, parameters |-> <<U8>>, returns |-> U16]>>]

\* The payloads of the arguments on the wire, in argument order: one byte of
\* a U8, two bytes of a U16 with the most significant first.
RECURSIVE Payloads(_)
Payloads(arguments) ==
    IF arguments = <<>> THEN <<>>
    ELSE (IF Head(arguments).ty = U8
          THEN <<Head(arguments).v>>
          ELSE <<Head(arguments).v \div 256, Head(arguments).v % 256>>)
         \o Payloads(Tail(arguments))

\* The Call request of the last call as the protocol lays it out.
CallRequest == <<2, last.id \div 256, last.id % 256>> \o Payloads(last.arguments)

\* C14: a call that passes validation writes the Call opcode 2, the id as two
\* bytes with the most significant first and the payload of each argument in
\* argument order, and nothing else; it reads the result byte after all of
\* them are written, and when a write fails it has written a part of the
\* request from its start and reads nothing.
C14_CallRequestBytes ==
    (last.op = "call" /\ (Written(CallIo) # <<>> \/ ReadBack(CallIo) # <<>>)) =>
        /\ CallIo = Written(CallIo) \o ReadBack(CallIo)
        /\ IF last.werr
           THEN /\ Len(Written(CallIo)) < Len(CallRequest)
                /\ Bytes(Written(CallIo)) = SubSeq(CallRequest, 1, Len(Written(CallIo)))
                /\ ReadBack(CallIo) = <<>>
           ELSE Bytes(Written(CallIo)) = CallRequest

\* call(0, [U8(7)]) wrote 02 00 00 07, and the response 00 01 02 gave
\* Some(U16(258)).
C14_Witness ==
    /\ last.op = "call"
    /\ last.id = 0
    /\ last.arguments = <<[ty |-> U8, v |-> 7]>>
    /\ Bytes(Written(CallIo)) = <<2, 0, 0, 7>>
    /\ Bytes(ReadBack(CallIo)) = <<0, 1, 2>>
    /\ last.result = [kind |-> "Ok",
                      value |-> [some |-> TRUE, val |-> [ty |-> U16, v |-> 258]]]

\* C15: an enumerate, with a table cached or without, begins with the write
\* of a Version request; one that succeeds has written the Version request
\* and the Enumerate request, and the cache after it is the table it read,
\* count entries described by the bytes of this response, with nothing of the
\* table cached before.
C15_EnumerateReplaces ==
    [][last'.op = "enumerate" =>
          /\ last'.io = <<>> => last'.werr
          /\ last'.io # <<>> => last'.io[1] = [k |-> "w", b |-> 0, req |-> "Version"]
          /\ last'.result.kind = "Ok" =>
                /\ Steps(Written(last'.io)) = << <<"w", 0>>, <<"w", 1>> >>
                /\ procedures' = [some |-> TRUE, procs |-> last'.result.procs]
                /\ Bytes(ReadBack(EnumerateIo)) =
                      <<0, Len(procedures'.procs) \div 256, Len(procedures'.procs) % 256>>
                          \o TableBytes(procedures'.procs)
      ]_vars

\* An enumerate of a Client with a table of two procedures read an empty
\* table, and the cached table is empty.
C15_Witness ==
    /\ last.op = "enumerate"
    /\ last.had = 2
    /\ last.result.kind = "Ok"
    /\ procedures = [some |-> TRUE, procs |-> <<>>]

(* -------------------------- types on the wire -------------------------- *)

\* Every value of a byte.
AllBytes == 0 .. 2^8 - 1

\* The responses of a server of version 0 with one procedure, which sends the
\* byte b for the return type of the procedure (flags 0x81), or for the type
\* of its one parameter (flags 0x01).
AsReturnType(b) == <<0, 0, 0, 0, 1, 129, b, 0>>
AsParameterType(b) == <<0, 0, 0, 0, 1, 1, b>>

\* A byte to decode as a type: last holds it as the one argument.
TypeInit ==
    /\ procedures = None
    /\ sent = [version |-> 0, enumerate |-> 0, pristine |-> TRUE]
    /\ unread = 0
    /\ \E b \in AllBytes :
          last = [op |-> "byte", id |-> 0, arguments |-> <<b>>,
                  result |-> [kind |-> "None"], io |-> <<>>,
                  rerr |-> FALSE, werr |-> FALSE, had |-> -1]

\* Type::read(r) on a reader that holds the byte and one byte more.
TypeReadStep ==
    /\ last.op = "byte"
    /\ \E r \in {TypeRead(Channel(last.arguments \o Trailing, 0), "Enumerate")} :
          last' = [last EXCEPT !.op = "type", !.io = r.ch.io, !.rerr = r.ch.rerr,
                               !.result = IF r.result.kind = "Ok"
                                          THEN [kind |-> "Ok", ty |-> r.ty]
                                          ELSE r.result]
    /\ UNCHANGED <<procedures, sent, unread>>

\* enumerate() of a new Client on a channel that delivers the response.
EnumerateOn(response) ==
    /\ \E out \in {Enumerate(procedures, Channel(response, 2))} :
          /\ procedures' = out.procedures
          /\ last' = [last EXCEPT !.op = "enumerate", !.io = out.ch.io,
                                  !.rerr = out.ch.rerr, !.werr = out.ch.werr,
                                  !.result = out.result]
    /\ UNCHANGED <<sent, unread>>

\* The byte stands where the return type of the procedure does.
EnumerateReturnType ==
    /\ last.op = "byte"
    /\ EnumerateOn(AsReturnType(last.arguments[1]))

\* The byte stands where the type of the parameter does.
EnumerateParameterType ==
    /\ last.op = "byte"
    /\ EnumerateOn(AsParameterType(last.arguments[1]))

TypeNext == TypeReadStep \/ EnumerateReturnType \/ EnumerateParameterType

TypeSpec == TypeInit /\ [][TypeNext]_vars

\* The types of a cached table are types: nothing but U8 and U16 for a
\* parameter, and these or none for the return value.
TypesClosed ==
    procedures.some =>
        \A i \in 1 .. Len(procedures.procs) :
            /\ procedures.procs[i].returns \in {"U8", "U16", "None"}
            /\ \A j \in 1 .. Len(procedures.procs[i].parameters) :
                  procedures.procs[i].parameters[j] \in {"U8", "U16"}

\* C16: Type::read takes one byte, answers U8 for 0 and U16 for 1, and fails
\* with ProtocolError for every other byte; an enumerate that meets a byte
\* other than 0 and 1 where a return type or a parameter type stands fails
\* with ProtocolError at that byte and caches nothing, and a cached table
\* holds no type but U8 and U16.
C16_TypeReadClosed ==
    /\ TypesClosed
    /\ last.op = "type" =>
          /\ Bytes(ReadBack(last.io)) = last.arguments
          /\ last.result =
                IF last.arguments[1] = 0 THEN [kind |-> "Ok", ty |-> "U8"]
                ELSE IF last.arguments[1] = 1 THEN [kind |-> "Ok", ty |-> "U16"]
                ELSE [kind |-> "ProtocolError", description |-> "invalid type"]
    /\ (last.op = "enumerate" /\ last.arguments[1] \notin {0, 1}) =>
          /\ last.result = [kind |-> "ProtocolError", description |-> "invalid type"]
          /\ Bytes(ReadBack(last.io))[Len(ReadBack(last.io))] = last.arguments[1]
          /\ Len(ReadBack(last.io)) = 7
          /\ procedures = [some |-> FALSE, procs |-> <<>>]
    /\ (last.op = "enumerate" /\ last.arguments[1] \in {0, 1}) =>
          /\ last.result.kind = "Ok"
          /\ procedures.some
          /\ Len(procedures.procs) = 1

\* An enumerate met the byte 0xFF where the return type stands.
C16_Witness ==
    /\ last.op = "enumerate"
    /\ last.arguments = <<255>>
    /\ Bytes(ReadBack(last.io)) = <<0, 0, 0, 0, 1, 129, 255>>
    /\ last.result.kind = "ProtocolError"
    /\ ~procedures.some

\* C17: a call of a Client with a table cached leaves the cache as it is,
\* however the call ends; and the cache changes in no step but one that runs
\* an enumeration to its successful end, in an explicit enumerate or in a
\* procedures or a call of a Client without a table.
C17_CallKeepsCache ==
    [][/\ (procedures.some /\ last'.op = "call") => procedures' = procedures
       /\ procedures' # procedures =>
             /\ last'.op = "enumerate" \/ ~procedures.some
             /\ Steps(Written(SelectSeq(last'.io, LAMBDA e : e.req # "Call")))
                   = << <<"w", 0>>, <<"w", 1>> >>
             /\ procedures'.some
             /\ last'.op # "call" => last'.result.kind = "Ok"
      ]_vars

\* A call of a Client with a table of one procedure ended in GenericError,
\* and the table is cached as before.
C17_Witness ==
    /\ last.op = "call"
    /\ last.had = 1
    /\ last.result.kind = "GenericError"
    /\ procedures.some
    /\ Len(procedures.procs) = 1

(* ------------------------ the assertions of call ----------------------- *)

\* The tables a server sends: count procedures, 1 or 2, each described by
\* the same flags byte, whatever byte, with U8 for every type.
TableCounts == {1, 2}

ServerDescriptor(flags) ==
    <<flags>> \o (IF flags >= 128 THEN <<0>> ELSE <<>>)
              \o [i \in 1 .. flags % 128 |-> 0]

ServerResponse(flags, count) ==
    <<0, 0, 0, 0, count>>
        \o ServerDescriptor(flags)
        \o (IF count = 2 THEN ServerDescriptor(flags) ELSE <<>>)

\* The argument lists a caller passes: k U8 values, then U16 values up to the
\* length n; k and n on both sides of the largest parameter count a flags
\* byte can carry and of the 256 of the assertion.
Leading == {0, 1, 126, 127, 255, 256, 257}
Lengths(k) == {k, k + 1, 300}
ArgumentsOf(k, n) ==
    [i \in 1 .. n |-> IF i <= k THEN [ty |-> U8, v |-> 7] ELSE [ty |-> U16, v |-> 258]]

\* A server with a table: last holds the flags byte and the count.
AssertInit ==
    /\ procedures = None
    /\ sent = [version |-> 0, enumerate |-> 0, pristine |-> TRUE]
    /\ unread = 0
    /\ \E flags \in AllBytes, count \in TableCounts :
          last = [op |-> "server", id |-> 0, arguments |-> <<flags, count>>,
                  result |-> [kind |-> "None"], io |-> <<>>,
                  rerr |-> FALSE, werr |-> FALSE, had |-> -1]

\* enumerate() against the server.
AssertEnumerate ==
    /\ last.op = "server"
    /\ \E out \in {Enumerate(procedures,
                             Channel(ServerResponse(last.arguments[1],
                                                    last.arguments[2]), 2))} :
          /\ procedures' = out.procedures
          /\ last' = [last EXCEPT !.op = "enumerate", !.arguments = <<>>,
                                  !.io = out.ch.io, !.result = out.result]
    /\ UNCHANGED <<sent, unread>>

\* call(id, arguments) of the Client with the table, for an id in the table
\* or just past it, on a channel that takes the opcode and the id of the
\* request and no byte of an argument, and answers 00 00 00.
AssertCall ==
    /\ last.op = "enumerate"
    /\ \E id \in 0 .. Len(procedures.procs), k \in Leading :
       \E n \in Lengths(k) :
       \E out \in {Call(procedures, id, ArgumentsOf(k, n),
                        Channel(<<0, 0, 0>>, 3))} :
          /\ procedures' = out.procedures
          /\ last' = [op |-> "call", id |-> id, arguments |-> ArgumentsOf(k, n),
                      result |-> out.result, io |-> out.ch.io,
                      rerr |-> out.ch.rerr, werr |-> out.ch.werr,
                      had |-> Had(procedures)]
    /\ UNCHANGED <<sent, unread>>

AssertNext == AssertEnumerate \/ AssertCall

AssertSpec == AssertInit /\ [][AssertNext]_vars

\* C18: no call fails an assertion, whatever table the server sent and
\* whatever id and arguments, of whatever number, the caller passes: the
\* procedure at the index id has the id id, no procedure has more than 127
\* parameters, and a mismatch is reported at an index below 256, that of the
\* first argument whose type is not the type of its parameter.
C18_NoPanic ==
    /\ last.result.kind # "Panic"
    /\ procedures.some =>
          \A i \in 1 .. Len(procedures.procs) :
              /\ procedures.procs[i].id = i - 1
              /\ Len(procedures.procs[i].parameters) <= 127
    /\ (last.op = "call" /\ last.result.kind = "MismatchedArguments") =>
          /\ last.result.index < 256
          /\ last.arguments[last.result.index + 1].ty = "U16"
          /\ \A j \in 1 .. last.result.index : last.arguments[j].ty = "U8"

\* A call of 300 arguments on a procedure of 127 parameters was refused for
\* the argument at index 126.
C18_Witness ==
    /\ last.op = "call"
    /\ last.id = 1
    /\ Len(last.arguments) = 300
    /\ Len(procedures.procs) = 2
    /\ Len(procedures.procs[2].parameters) = 127
    /\ last.result.kind = "MismatchedArguments"
    /\ last.result.index = 126

\* C19: a Client with a table cached has a table cached after every
\* operation, successful or failed.
C19_ReadyForGood ==
    [][procedures.some => procedures'.some]_vars

\* An enumerate of a Client with a table of one procedure found the channel
\* closed for its Version request, and the table is cached as before.
C19_Witness ==
    /\ last.op = "enumerate"
    /\ last.had = 1
    /\ last.result.kind = "IoError"
    /\ last.io = <<>>
    /\ procedures.some
    /\ Len(procedures.procs) = 1

\* The errors of an enumeration.
EnumerationErrors == {"IoError", "ProtocolError", "MismatchedVersion"}

\* C20: an enumerate or a procedures that fails on a Client without a table
\* leaves the Client without one; a procedures or a call of a Client without a
\* table begins with the write of a Version request and goes on to the
\* Enumerate request when the server answers with version 0, whatever
\* enumerations failed before; and a call whose enumeration fails answers with
\* the error of the enumeration and writes nothing of a Call request.
C20_FailureNotSticky ==
    [][~procedures.some =>
          /\ (last'.op \in {"enumerate", "procedures"} /\ last'.result.kind # "Ok")
                => ~procedures'.some
          /\ last'.op \in {"procedures", "call"} =>
                /\ last'.io = <<>> => last'.werr
                /\ last'.io # <<>> =>
                      last'.io[1] = [k |-> "w", b |-> 0, req |-> "Version"]
                /\ Bytes(ReadBack(VersionIo)) = <<0, 0>> =>
                      \/ Bytes(Written(EnumerateIo)) = <<1>>
                      \/ last'.werr /\ EnumerateIo = <<>>
          /\ (last'.op = "call" /\ ~procedures'.some) =>
                /\ last'.result.kind \in EnumerationErrors
                /\ Of(last'.io, "Call") = <<>>
      ]_vars

\* After a handshake that failed, a call of the Client without a table wrote
\* a second Version request, met a server of version 129 and answered with
\* MismatchedVersion.
C20_Witness ==
    /\ last.op = "call"
    /\ last.had = -1
    /\ sent.version = 2
    /\ sent.enumerate = 0
    /\ ~procedures.some
    /\ Bytes(last.io) = <<0, 0, 129>>
    /\ last.result = [kind |-> "MismatchedVersion", ours |-> 0, theirs |-> 129]

====
